---- MODULE Spec2Model ----
(***************************************************************************)
(* Model of the two components of gc_stream_toolkit that do original work: *)
(*   - the NEMO/TSF snapshot text parser (nemo_reader.py), and             *)
(*   - the timeline synchronizer of StreamAnimator (stream_animator.py).   *)
(*                                                                         *)
(* Text is a flat sequence of tokens.  A token is a record                 *)
(*   [kind, name, n]:  a number, a word, or an array label such as         *)
(*   Position[2][3] (kind "arr", name "Position", n 2).  Line breaks and   *)
(*   the snapshot delimiter 'set SnapShot' are tokens of their own.        *)
(* Times are counted in ticks of half a time unit, so that the default     *)
(* step 0.5 is one tick; master-grid times and interpolated values are     *)
(* exact rationals.                                                        *)
(***************************************************************************)
EXTENDS Integers, Sequences, FiniteSets, TLC

\* ------------------------------------------------------------------------
\* Bounds of the explored inputs
\* ------------------------------------------------------------------------
MaxBlocks == 2      \* snapshot blocks in a text
MaxCount == 2       \* largest declared particle count (int Nobj)
MaxTime == 3        \* latest sample time of a series, in ticks
MaxSamples == 3     \* time samples of a series
MaxParticles == 2   \* stream particles of a series

\* ------------------------------------------------------------------------
\* Tokens
\* ------------------------------------------------------------------------
Num(v) == [kind |-> "num", name |-> "", n |-> v]
Word(s) == [kind |-> "word", name |-> s, n |-> 0]
Arr(a, size) == [kind |-> "arr", name |-> a, n |-> size]

NL == Word("\n")
DELIM == Word("set SnapShot")
DOTS == Word(". . .")

\* Python's None for particle_count / simulation_time
None == -1

NoErr == "none"

VARIABLES
    \* StreamAnimator: the loaded series, the constructor's position, the
    \* master timeline and the synced arrays
    streams_data, stage, finest_dt, master_time, n_timesteps,
    synced_cluster_positions, synced_stream_positions,
    \* parse_converted_falcon_output
    tsf_output, timestep, pc, snapshots, lines, particle_count,
    simulation_time, positions, velocities, masses, result, error,
    \* the timestep argument as passed (timestep itself is rebound at line 157)
    requested,
    \* read_nemo: whether NEMO_PATH is in the environment, the position in
    \* read_nemo, how often the tsf converter was run, the error raised and
    \* the NemoData returned
    nemo_path_set, read_pc, tsf_runs, read_error, nemo_data,
    \* StreamAnimator: the settings of _set_defaults (a record), the axis
    \* limits (<<>> while the attribute does not exist), the animation
    \* handle (<<>> is None), the figure and the axis of animate()
    settings, x_limits, y_limits, z_limits, animation, figure, axis,
    \* the last call made on the animator, the error it raised, whether
    \* animate() has been called so far, how many configure/set calls were
    \* made, and what the animation drew when it was last run
    last_call, raised, animated, n_configure, drawn,
    \* the view settings of matplotlib_config ("unset" while the attribute
    \* does not exist)
    view_kwargs

parseVars == <<tsf_output, timestep, pc, snapshots, lines, particle_count,
               simulation_time, positions, velocities, masses, result, error,
               requested>>

syncVars == <<streams_data, stage, finest_dt, master_time, n_timesteps,
              synced_cluster_positions, synced_stream_positions>>

readVars == <<nemo_path_set, read_pc, tsf_runs, read_error, nemo_data>>

animVars == <<settings, x_limits, y_limits, z_limits, animation, figure, axis,
              last_call, raised, animated, n_configure, drawn, view_kwargs>>

vars == <<parseVars, syncVars, readVars, animVars>>

\* ------------------------------------------------------------------------
\* nemo_reader.py : pure helpers
\* ------------------------------------------------------------------------
\* str.split(sep): the segments between the occurrences of sep
RECURSIVE SplitOn(_, _)
SplitOn(s, sep) ==
    IF \A i \in 1..Len(s) : s[i] # sep
    THEN <<s>>
    ELSE LET i == CHOOSE k \in 1..Len(s) :
                      s[k] = sep /\ \A j \in 1..(k-1) : s[j] # sep
         IN  <<SubSeq(s, 1, i-1)>> \o SplitOn(SubSeq(s, i+1, Len(s)), sep)

\* variant: the segment before the first delimiter is kept as a block
split_into_snapshots_KeepFirst(text) ==
    LET parts == SplitOn(text, DELIM)
    IN  [i \in 1..Len(parts) |-> <<DELIM>> \o parts[i]]

split_into_snapshots(text) ==
    LET parts == SplitOn(text, DELIM)
    IN  [i \in 1..(Len(parts)-1) |-> <<DELIM>> \o parts[i+1]]

\* variant: negative indexes resolved one too high
ResolveIndex_OffByOne(ts, n) == IF ts < 0 THEN n + ts + 1 ELSE ts

\* line 156-157: negative indexes count from the end
ResolveIndex(ts, n) == IF ts < 0 THEN n + ts ELSE ts

\* line 159
IndexOutOfRange(ts, n) == ts >= n \/ ts < 0

\* 'a b' in line
ContainsPair(line, a, b) ==
    \E i \in 1..(Len(line)-1) : line[i] = Word(a) /\ line[i+1] = Word(b)

\* line.startswith(w + ' ') on a stripped line
StartsWithWord(line, w) ==
    /\ Len(line) >= 1
    /\ \/ Len(line) > 1 /\ line[1] = Word(w)
       \/ w = "set" /\ line[1] = DELIM

\* name in line
MentionsName(line, a) == \E i \in 1..Len(line) : line[i].name = a

\* name + '[' in line
HasArrayLabel(line, a) ==
    \E i \in 1..Len(line) : line[i].kind = "arr" /\ line[i].name = a

\* variant: only the end-of-block marker stops the scan
should_stop_parsing_TesOnly(line, array_name) ==
    line = <<Word("tes")>>

should_stop_parsing(line, array_name) ==
    \/ line = <<Word("tes")>>
    \/ /\ StartsWithWord(line, "float") \/ StartsWithWord(line, "double")
       /\ ~MentionsName(line, array_name)

is_header_line(line) ==
    \/ \E w \in {"int", "double", "float", "char", "set"} : StartsWithWord(line, w)
    \/ Len(line) >= 1 /\ line[1] = Word("tes")

\* the float() values of the numeric tokens of a data line, in order
RECURSIVE NumericTokens(_)
NumericTokens(parts) ==
    IF parts = <<>> THEN <<>>
    ELSE IF Head(parts).kind = "num"
         THEN <<Head(parts).n>> \o NumericTokens(Tail(parts))
         ELSE NumericTokens(Tail(parts))

\* line.replace('. . .', '').split()
StripDots(line) == SelectSeq(line, LAMBDA t : t # DOTS)

RECURSIVE InfoScan(_, _, _)
InfoScan(ls, i, acc) ==
    IF i > Len(ls) \/ acc.err # NoErr THEN acc
    ELSE LET line == ls[i] IN
         IF ContainsPair(line, "int", "Nobj")
         THEN IF line[Len(line)].kind = "num"
              THEN InfoScan(ls, i+1, [acc EXCEPT !.count = line[Len(line)].n])
              ELSE [acc EXCEPT !.err = "invalid literal"]
         ELSE IF ContainsPair(line, "double", "Time")
         THEN IF line[Len(line)].kind = "num"
              THEN InfoScan(ls, i+1, [acc EXCEPT !.time = line[Len(line)].n])
              ELSE [acc EXCEPT !.err = "invalid literal"]
         ELSE InfoScan(ls, i+1, acc)

\* variant: a missing time is an error as well
extract_simulation_info_TimeRequired(ls) ==
    LET acc == InfoScan(ls, 1, [count |-> None, time |-> None, err |-> NoErr])
    IN  IF acc.err # NoErr THEN acc
        ELSE IF acc.count = None \/ acc.time = None
             THEN [acc EXCEPT !.err = "Could not find particle count"]
             ELSE acc

\* variant: a missing count defaults to one particle
extract_simulation_info_DefaultCount(ls) ==
    LET acc == InfoScan(ls, 1, [count |-> None, time |-> None, err |-> NoErr])
    IN  IF acc.err # NoErr THEN acc
        ELSE IF acc.count = None THEN [acc EXCEPT !.count = 1] ELSE acc

extract_simulation_info(ls) ==
    LET acc == InfoScan(ls, 1, [count |-> None, time |-> None, err |-> NoErr])
    IN  IF acc.err # NoErr THEN acc
        ELSE IF acc.count = None
             THEN [acc EXCEPT !.err = "Could not find particle count"]
             ELSE acc

\* 0 when no line holds name[count]; otherwise the (1-based) line
find_array_start_line(ls, array_name, count) ==
    IF \E i \in 1..Len(ls) : \E k \in 1..Len(ls[i]) : ls[i][k] = Arr(array_name, count)
    THEN CHOOSE i \in 1..Len(ls) :
            /\ \E k \in 1..Len(ls[i]) : ls[i][k] = Arr(array_name, count)
            /\ \A j \in 1..(i-1) : \A k \in 1..Len(ls[j]) : ls[j][k] # Arr(array_name, count)
    ELSE 0

RECURSIVE NumbersScan(_, _, _, _)
NumbersScan(ls, i, array_name, numbers) ==
    IF i > Len(ls) THEN [err |-> NoErr, numbers |-> numbers]
    ELSE LET line == ls[i] IN
         IF should_stop_parsing(line, array_name)
         THEN [err |-> NoErr, numbers |-> numbers]
         ELSE IF HasArrayLabel(line, array_name)
         THEN LET k == CHOOSE k \in 1..Len(line) :
                           line[k].kind = "arr" /\ \A j \in 1..(k-1) : line[j].kind # "arr"
                  rest == SubSeq(line, k+1, Len(line))
              IN  IF \E j \in 1..Len(rest) : rest[j].kind # "num"
                  THEN [err |-> "invalid literal", numbers |-> numbers]
                  ELSE NumbersScan(ls, i+1, array_name,
                                   numbers \o [j \in 1..Len(rest) |-> rest[j].n])
         ELSE IF line # <<>> /\ ~is_header_line(line)
         THEN NumbersScan(ls, i+1, array_name,
                          numbers \o NumericTokens(StripDots(line)))
         ELSE NumbersScan(ls, i+1, array_name, numbers)

extract_numbers_from_section(ls, start_line, array_name) ==
    NumbersScan(ls, start_line, array_name, <<>>)

Take(s, k) == SubSeq(s, 1, IF k < Len(s) THEN k ELSE Len(s))

\* variant: column-major fill
reshape_for_particles_ColumnMajor(numbers, count, dimensions) ==
    IF dimensions = 1
    THEN [err |-> NoErr, value |-> Take(numbers, count)]
    ELSE LET total_expected == count * dimensions
             kept == Take(numbers, total_expected)
         IN  IF Len(kept) # total_expected
             THEN [err |-> "cannot reshape", value |-> <<>>]
             ELSE [err |-> NoErr,
                   value |-> [r \in 1..count |->
                                [c \in 1..dimensions |-> kept[(c-1)*count + r]]]]

reshape_for_particles(numbers, count, dimensions) ==
    IF dimensions = 1
    THEN [err |-> NoErr, value |-> Take(numbers, count)]
    ELSE LET total_expected == count * dimensions
             kept == Take(numbers, total_expected)
         IN  IF Len(kept) # total_expected
             THEN [err |-> "cannot reshape", value |-> <<>>]
             ELSE [err |-> NoErr,
                   value |-> [r \in 1..count |->
                                [c \in 1..dimensions |-> kept[(r-1)*dimensions + c]]]]

extract_particle_array(ls, array_name, count, dimensions) ==
    LET start_line == find_array_start_line(ls, array_name, count) IN
    IF start_line = 0
    THEN [err |-> "Could not find array", value |-> <<>>]
    ELSE LET nums == extract_numbers_from_section(ls, start_line, array_name) IN
         IF nums.err # NoErr
         THEN [err |-> nums.err, value |-> <<>>]
         ELSE reshape_for_particles(nums.numbers, count, dimensions)

\* ------------------------------------------------------------------------
\* Input texts: TSF dumps as the converter lays them out
\*     set SnapShot
\*       set Parameters
\*         int Nobj N
\*         double Time t
\*       tes
\*       set Particles
\*         double Position[N][3] ...
\*         double Velocity[N][3] ...
\*         float Mass[N] ...
\*       tes
\*     tes
\* One block of a text (the varied block) is drawn from every combination
\* of missing/present count and time and of one array section being
\* missing, mis-sized, short, exact or over-long, with or without stray
\* tokens; the other blocks are plain one-particle snapshots told apart by
\* their Time.
\* ------------------------------------------------------------------------
ArrayNames == {"Position", "Velocity", "Mass"}
Dimensions(a) == IF a = "Mass" THEN 1 ELSE 3
TypeWord(a) == IF a = "Mass" THEN "float" ELSE "double"
FirstValue(a) == IF a = "Position" THEN 100 ELSE IF a = "Velocity" THEN 200 ELSE 300
VariedTime == 7

RECURSIVE Rows(_, _)
Rows(nums, d) ==
    IF nums = <<>> THEN <<>>
    ELSE IF Len(nums) <= d THEN << [j \in 1..Len(nums) |-> Num(nums[j])] >>
    ELSE << [j \in 1..d |-> Num(nums[j])] >> \o Rows(SubSeq(nums, d+1, Len(nums)), d)

Canonical == [decl |-> "ok", delta |-> 0, inl |-> 0, junk |-> "none"]

Variants ==
    { [decl |-> "none", delta |-> 0, inl |-> 0, junk |-> "none"],
      [decl |-> "wrong", delta |-> 0, inl |-> 0, junk |-> "none"] }
    \cup [decl : {"ok"}, delta : {-1, 0, 1}, inl : {0, 1}, junk : {"none"}]
    \cup [decl : {"ok"}, delta : {0}, inl : {0, 1},
          junk : {"data", "decl", "dots", "leak"}]
    \cup [decl : {"ok"}, delta : {-1}, inl : {0}, junk : {"leak"}]

Section(a, count, v) ==
    LET d == Dimensions(a)
        k == count * d + v.delta
        nums == [j \in 1..k |-> FirstValue(a) + j]
        ni == IF v.inl < k THEN v.inl ELSE k
        header == <<Word(TypeWord(a)),
                    Arr(a, IF v.decl = "wrong" THEN count + 1 ELSE count)>>
                  \o [j \in 1..ni |-> Num(nums[j])]
                  \o (IF v.junk = "decl" THEN <<Word("#")>> ELSE <<>>)
        rows == Rows(SubSeq(nums, ni+1, k), d)
        noisy == IF v.junk = "data"
                 THEN IF rows = <<>> THEN << <<Word("#")>> >>
                      ELSE << <<Word("#")>> \o rows[1] >> \o Tail(rows)
                 ELSE IF v.junk = "dots"
                 THEN IF rows = <<>> THEN << <<DOTS>> >>
                      ELSE << rows[1] \o <<DOTS>> >> \o Tail(rows)
                 ELSE rows
        leak == IF v.junk = "leak"
                THEN << <<Word("int"), Arr("Key", count)>>, <<Num(901), Num(902)>> >>
                ELSE <<>>
    IN  IF v.decl = "none" THEN <<>> ELSE <<header>> \o noisy \o leak

RECURSIVE JoinLines(_)
JoinLines(ls) ==
    IF ls = <<>> THEN <<>> ELSE <<NL>> \o Head(ls) \o JoinLines(Tail(ls))

\* the tokens of one block after its 'set SnapShot'
BlockBody(nobj, time, focus, v) ==
    LET count == IF nobj = None THEN 1 ELSE nobj
        var(a) == IF a = focus THEN v ELSE Canonical
    IN  JoinLines(
          << <<Word("set"), Word("Parameters")>> >>
          \o (IF nobj = None THEN <<>> ELSE << <<Word("int"), Word("Nobj"), Num(nobj)>> >>)
          \o (IF time = None THEN <<>> ELSE << <<Word("double"), Word("Time"), Num(time)>> >>)
          \o << <<Word("tes")>>, <<Word("set"), Word("Particles")>> >>
          \o Section("Position", count, var("Position"))
          \o Section("Velocity", count, var("Velocity"))
          \o Section("Mass", count, var("Mass"))
          \o << <<Word("tes")>>, <<Word("tes")>> >>) \o <<NL>>

PlainBody(i) == BlockBody(1, i, "Position", Canonical)

VariedBodies ==
    { BlockBody(nobj, time, focus, v) :
        nobj \in {None} \cup 1..MaxCount, time \in {None, VariedTime},
        focus \in ArrayNames, v \in Variants }

Noises == { <<>>, <<Word("char"), Word("Headline"), NL, Num(5), NL>> }

RECURSIVE Concat(_)
Concat(ss) == IF ss = <<>> THEN <<>> ELSE Head(ss) \o Concat(Tail(ss))

MakeText(noise, n, k, body) ==
    noise \o Concat([i \in 1..n |-> <<DELIM>> \o (IF i = k THEN body ELSE PlainBody(i))])

Texts ==
    Noises \cup
    { MakeText(noise, n, k, body) :
        noise \in Noises, n \in 1..MaxBlocks, k \in 1..MaxBlocks, body \in VariedBodies }

Timesteps == (0 - (MaxBlocks + 1))..MaxBlocks

\* read_nemo is not in use
ReadIdle ==
    /\ nemo_path_set = TRUE
    /\ read_pc = "idle"
    /\ tsf_runs = 0
    /\ read_error = NoErr
    /\ nemo_data = <<>>

\* the animator is not in use
SyncIdle ==
    /\ streams_data = <<>>
    /\ stage = "idle"
    /\ finest_dt = 0
    /\ master_time = <<>>
    /\ n_timesteps = 0
    /\ synced_cluster_positions = <<>>
    /\ synced_stream_positions = <<>>
    /\ settings = <<>>
    /\ x_limits = <<>>
    /\ y_limits = <<>>
    /\ z_limits = <<>>
    /\ animation = <<>>
    /\ figure = <<>>
    /\ axis = <<>>
    /\ last_call = "idle"
    /\ raised = NoErr
    /\ animated = FALSE
    /\ n_configure = 0
    /\ drawn = <<>>
    /\ view_kwargs = "unset"

\* ------------------------------------------------------------------------
\* parse_converted_falcon_output, one action per statement group
\* ------------------------------------------------------------------------
InitParse ==
    /\ tsf_output \in Texts
    /\ timestep \in Timesteps
    /\ requested = timestep
    /\ pc = "split"
    /\ snapshots = <<>>
    /\ lines = <<>>
    /\ particle_count = None
    /\ simulation_time = None
    /\ positions = <<>>
    /\ velocities = <<>>
    /\ masses = <<>>
    /\ result = <<>>
    /\ error = NoErr
    /\ SyncIdle
    /\ ReadIdle

Raise(msg) ==
    /\ pc' = "failed"
    /\ error' = msg

\* lines 150-153
SplitIntoSnapshots ==
    /\ pc = "split"
    /\ snapshots' = split_into_snapshots(tsf_output)
    /\ IF snapshots' = <<>>
       THEN Raise("No snapshots found")
       ELSE pc' = "select" /\ UNCHANGED error
    /\ UNCHANGED <<tsf_output, timestep, lines, particle_count, simulation_time,
                   positions, velocities, masses, result, requested>>
    /\ UNCHANGED <<syncVars, readVars, animVars>>

\* lines 156-163
SelectSnapshot ==
    /\ pc = "select"
    /\ timestep' = ResolveIndex(timestep, Len(snapshots))
    /\ IF IndexOutOfRange(timestep', Len(snapshots))
       THEN Raise("Timestep not found") /\ UNCHANGED lines
       ELSE /\ lines' = SplitOn(snapshots[timestep' + 1], NL)
            /\ pc' = "info"
            /\ UNCHANGED error
    /\ UNCHANGED <<tsf_output, snapshots, particle_count, simulation_time,
                   positions, velocities, masses, result, requested>>
    /\ UNCHANGED <<syncVars, readVars, animVars>>

\* line 166
ExtractSimulationInfo ==
    /\ pc = "info"
    /\ LET info == extract_simulation_info(lines) IN
       IF info.err # NoErr
       THEN Raise(info.err) /\ UNCHANGED <<particle_count, simulation_time>>
       ELSE /\ particle_count' = info.count
            /\ simulation_time' = info.time
            /\ pc' = "position"
            /\ UNCHANGED error
    /\ UNCHANGED <<tsf_output, timestep, snapshots, lines,
                   positions, velocities, masses, result, requested>>
    /\ UNCHANGED <<syncVars, readVars, animVars>>

\* line 169
ExtractPositions ==
    /\ pc = "position"
    /\ LET r == extract_particle_array(lines, "Position", particle_count, 3) IN
       IF r.err # NoErr
       THEN Raise(r.err) /\ UNCHANGED positions
       ELSE positions' = r.value /\ pc' = "velocity" /\ UNCHANGED error
    /\ UNCHANGED <<tsf_output, timestep, snapshots, lines, particle_count,
                   simulation_time, velocities, masses, result, requested>>
    /\ UNCHANGED <<syncVars, readVars, animVars>>

\* line 170
ExtractVelocities ==
    /\ pc = "velocity"
    /\ LET r == extract_particle_array(lines, "Velocity", particle_count, 3) IN
       IF r.err # NoErr
       THEN Raise(r.err) /\ UNCHANGED velocities
       ELSE velocities' = r.value /\ pc' = "mass" /\ UNCHANGED error
    /\ UNCHANGED <<tsf_output, timestep, snapshots, lines, particle_count,
                   simulation_time, positions, masses, result, requested>>
    /\ UNCHANGED <<syncVars, readVars, animVars>>

\* line 171
ExtractMasses ==
    /\ pc = "mass"
    /\ LET r == extract_particle_array(lines, "Mass", particle_count, 1) IN
       IF r.err # NoErr
       THEN Raise(r.err) /\ UNCHANGED masses
       ELSE masses' = r.value /\ pc' = "return" /\ UNCHANGED error
    /\ UNCHANGED <<tsf_output, timestep, snapshots, lines, particle_count,
                   simulation_time, positions, velocities, result, requested>>
    /\ UNCHANGED <<syncVars, readVars, animVars>>

\* lines 173-179; the returned dictionary is <<it>>, no return is <<>>
ReturnResult ==
    /\ pc = "return"
    /\ result' = << [positions |-> positions, velocities |-> velocities,
                     masses |-> masses, time |-> simulation_time,
                     particle_count |-> particle_count] >>
    /\ pc' = "done"
    /\ UNCHANGED <<tsf_output, timestep, snapshots, lines, particle_count,
                   simulation_time, positions, velocities, masses, error, requested>>
    /\ UNCHANGED <<syncVars, readVars, animVars>>

NextParse ==
    \/ SplitIntoSnapshots
    \/ SelectSnapshot
    \/ ExtractSimulationInfo
    \/ ExtractPositions
    \/ ExtractVelocities
    \/ ExtractMasses
    \/ ReturnResult

SpecParse == InitParse /\ [][NextParse]_vars

\* ------------------------------------------------------------------------
\* Exact rationals [num, den] in lowest terms, den > 0; NaN has den = 0
\* ------------------------------------------------------------------------
Abs(x) == IF x < 0 THEN 0 - x ELSE x

RECURSIVE GCD(_, _)
GCD(a, b) == IF b = 0 THEN a ELSE GCD(b, a % b)

Rat(n, d) ==
    LET g == GCD(Abs(n), d) IN [num |-> n \div g, den |-> d \div g]

NaN == [num |-> 0, den |-> 0]
IsNaN(v) == v.den = 0

Less(a, b) == a.num * b.den < b.num * a.den
Leq(a, b) == a.num * b.den <= b.num * a.den
Minus(a, b) == Rat(a.num * b.den - b.num * a.den, a.den * b.den)
Plus(a, b) == Rat(a.num * b.den + b.num * a.den, a.den * b.den)

RatMin(S) == CHOOSE x \in S : \A y \in S : Leq(x, y)
RatMax(S) == CHOOSE x \in S : \A y \in S : Leq(y, x)

\* ------------------------------------------------------------------------
\* numpy
\* ------------------------------------------------------------------------
SeqMin(s) == CHOOSE x \in {s[i] : i \in 1..Len(s)} : \A i \in 1..Len(s) : x <= s[i]
SeqMax(s) == CHOOSE x \in {s[i] : i \in 1..Len(s)} : \A i \in 1..Len(s) : x >= s[i]

\* np.linspace(start, stop, num), start and stop in ticks
linspace(start, stop, num) ==
    IF num = 1 THEN << Rat(start, 1) >>
    ELSE [i \in 1..num |-> Rat(start * (num - 1) + (i - 1) * (stop - start), num - 1)]

\* np.searchsorted(a, v): how many entries of the ascending a are below v
searchsorted(a, v) == Cardinality({i \in 1..Len(a) : Less(a[i], Rat(v, 1))})

\* a sample that is NaN in the file (lines 86-87); every other sample is
\* an integer
NaNSample == -1000000

Val(v) == IF v = NaNSample THEN NaN ELSE Rat(v, 1)

\* variant: the value of the sample to the left, no interpolation
interp_Step(x, xp, fp) ==
    IF Leq(x, Rat(xp[1], 1)) THEN Val(fp[1])
    ELSE IF Leq(Rat(xp[Len(xp)], 1), x) THEN Val(fp[Len(fp)])
    ELSE LET j == CHOOSE k \in 1..(Len(xp) - 1) :
                      Leq(Rat(xp[k], 1), x) /\ Less(x, Rat(xp[k+1], 1))
         IN  Val(fp[j])

\* np.interp(x, xp, fp) at one point x; xp ascending, flat beyond both ends;
\* a NaN sample makes what is computed from it NaN
interp(x, xp, fp) ==
    IF Leq(x, Rat(xp[1], 1)) THEN Val(fp[1])
    ELSE IF Leq(Rat(xp[Len(xp)], 1), x) THEN Val(fp[Len(fp)])
    ELSE LET j == CHOOSE k \in 1..(Len(xp) - 1) :
                      Leq(Rat(xp[k], 1), x) /\ Less(x, Rat(xp[k+1], 1))
             dx == xp[j+1] - xp[j]
         IN  IF fp[j] = NaNSample \/ fp[j+1] = NaNSample THEN NaN
             ELSE Rat(fp[j] * x.den * dx + (x.num - xp[j] * x.den) * (fp[j+1] - fp[j]),
                      x.den * dx)

\* ------------------------------------------------------------------------
\* stream_animator.py : StreamAnimator._load_data and what it calls
\* positions[coord][time index][particle]
\* ------------------------------------------------------------------------
\* line 113: the fallback step 0.5, one tick
DefaultDt == 1

\* variant: the coarsest first step is taken
FinestDt_Coarsest(all_times) ==
    LET timesteps == { Abs(all_times[s][2] - all_times[s][1]) :
                          s \in {k \in 1..Len(all_times) : Len(all_times[k]) > 1} }
    IN  IF timesteps # {}
        THEN CHOOSE d \in timesteps : \A e \in timesteps : d >= e
        ELSE DefaultDt

\* lines 107-113
FinestDt(all_times) ==
    LET timesteps == { Abs(all_times[s][2] - all_times[s][1]) :
                          s \in {k \in 1..Len(all_times) : Len(all_times[k]) > 1} }
    IN  IF timesteps # {}
        THEN CHOOSE d \in timesteps : \A e \in timesteps : d <= e
        ELSE DefaultDt

\* line 103
EarliestTime(all_times) ==
    LET mins == { SeqMin(all_times[s]) : s \in 1..Len(all_times) }
    IN  CHOOSE m \in mins : \A e \in mins : m <= e

\* line 104
LatestTime(all_times) ==
    LET maxs == { SeqMax(all_times[s]) : s \in 1..Len(all_times) }
    IN  CHOOSE m \in maxs : \A e \in maxs : m >= e

\* variant: the "+ 1" is left out
NSteps_NoPlusOne(earliest_time, latest_time, dt) ==
    IF latest_time = earliest_time THEN 1
    ELSE (latest_time - earliest_time) \div dt

\* variant: one step too many
NSteps_OneMore(earliest_time, latest_time, dt) ==
    ((latest_time - earliest_time) \div dt) + 2

\* line 116: int(...) truncates; the quotient is never negative
NSteps(earliest_time, latest_time, dt) ==
    ((latest_time - earliest_time) \div dt) + 1

\* variant: the "+ 1" of end_idx is left out
OverlapRange_NoPlusOne(master, original_times) ==
    LET start_idx == searchsorted(master, SeqMin(original_times))
        end_idx == searchsorted(master, SeqMax(original_times))
    IN  << start_idx, IF end_idx < Len(master) THEN end_idx ELSE Len(master) >>

\* lines 147-149: <<start_idx, end_idx>>, 0-based, end exclusive
OverlapRange(master, original_times) ==
    LET start_idx == searchsorted(master, SeqMin(original_times))
        end_idx == searchsorted(master, SeqMax(original_times)) + 1
    IN  << start_idx, IF end_idx < Len(master) THEN end_idx ELSE Len(master) >>

\* lines 141-161
interpolate_to_master(master, original_times, pos) ==
    LET rng == OverlapRange(master, original_times)
        np == Len(pos[1][1])
    IN  [coord \in 1..3 |->
          [i \in 1..Len(master) |->
            [particle \in 1..np |->
              IF rng[1] < rng[2] /\ rng[1] <= i - 1 /\ i - 1 < rng[2]
              THEN interp(master[i], original_times,
                          [t \in 1..Len(original_times) |-> pos[coord][t][particle]])
              ELSE NaN]]]

\* ------------------------------------------------------------------------
\* Input series: every ascending time grid of up to MaxSamples samples in
\* 0..MaxTime, one cluster particle and 1..MaxParticles stream particles,
\* with positions that are constant or zigzag in time and differ by
\* coordinate and particle
\* ------------------------------------------------------------------------
TimeSets == { S \in SUBSET (0..MaxTime) : S # {} /\ Cardinality(S) <= MaxSamples }

RECURSIVE Ascending(_)
Ascending(S) ==
    IF S = {} THEN <<>>
    ELSE LET m == CHOOSE x \in S : \A y \in S : x <= y
         IN  <<m>> \o Ascending(S \ {m})

Profiles == {"flat", "zigzag"}

SampleValue(profile, coord, t, particle) ==
    10 * coord + particle + (IF profile = "zigzag" /\ t % 2 = 0 THEN 3 * t ELSE 0)

MakeSeries(S, profile, np) ==
    LET ts == Ascending(S) IN
    [ times |-> ts,
      cluster_positions |->
          [coord \in 1..3 |-> [t \in 1..Len(ts) |->
              << SampleValue(profile, coord, t, 0) >>]],
      stream_positions |->
          [coord \in 1..3 |-> [t \in 1..Len(ts) |->
              [particle \in 1..np |-> SampleValue(profile, coord, t, particle)]]] ]

SeriesPool ==
    { MakeSeries(S, profile, np) :
        S \in TimeSets, profile \in Profiles, np \in 1..MaxParticles }

\* no file, one file or two files
SeriesLists ==
    { <<>> } \cup { <<a>> : a \in SeriesPool }
             \cup { <<a, b>> : a \in SeriesPool, b \in SeriesPool }

\* line 48-49
default_colors ==
    << "red", "blue", "green", "orange", "purple", "cyan",
       "magenta", "brown", "pink", "gray", "olive", "navy" >>

\* lines 39-70 without the animation handle; a label is the number of its
\* file, standing for the upper-cased base name of that file
set_defaults(n_streams) ==
    [ fps |-> 10,
      interval |-> 100,
      figure_size |-> <<10, 8>>,
      repeat |-> TRUE,
      cluster_colors |-> [i \in 1..n_streams |-> default_colors[((i - 1) % 12) + 1]],
      stream_colors |-> [i \in 1..n_streams |-> default_colors[((i - 1) % 12) + 1]],
      cluster_labels |-> [i \in 1..n_streams |-> i],
      cluster_size |-> 100,
      cluster_marker |-> "*",
      stream_size |-> 1,
      stream_alpha |-> Rat(6, 10),
      axis_margin |-> Rat(1, 1),
      show_legend |-> TRUE,
      title_template |-> "Tidal Stream Evolution Time: {time:.1f} Myr" ]

\* lines 168-175: the columns (array, series, time index, particle) of the
\* combined array and the value of a column at a coordinate
Columns(cluster, stream) ==
    UNION { { <<"cluster", s, i, p>> :
                i \in 1..Len(cluster[s][1]), p \in 1..Len(cluster[s][1][1]) }
            \cup { <<"stream", s, i, p>> :
                i \in 1..Len(stream[s][1]), p \in 1..Len(stream[s][1][1]) }
          : s \in 1..Len(cluster) }

ColumnValue(cluster, stream, col, coord) ==
    IF col[1] = "cluster" THEN cluster[col[2]][coord][col[3]][col[4]]
    ELSE stream[col[2]][coord][col[3]][col[4]]

\* variant: the margin is left out
calculate_axis_limits_NoMargin(cluster, stream, axis_margin) ==
    LET valid == { col \in Columns(cluster, stream) : \A c \in 1..3 :
                      ~IsNaN(ColumnValue(cluster, stream, col, c)) }
        lim(c) == LET vs == { ColumnValue(cluster, stream, col, c) : col \in valid }
                  IN  << RatMin(vs), RatMax(vs) >>
    IN  IF valid # {}
        THEN << lim(1), lim(2), lim(3) >>
        ELSE << <<Rat(-10, 1), Rat(10, 1)>>, <<Rat(-10, 1), Rat(10, 1)>>,
                <<Rat(-10, 1), Rat(10, 1)>> >>

\* lines 163-194: <<x_limits, y_limits, z_limits>>
calculate_axis_limits(cluster, stream, axis_margin) ==
    LET valid == { col \in Columns(cluster, stream) : \A c \in 1..3 :
                      ~IsNaN(ColumnValue(cluster, stream, col, c)) }
        lim(c) == LET vs == { ColumnValue(cluster, stream, col, c) : col \in valid }
                  IN  << Minus(RatMin(vs), axis_margin), Plus(RatMax(vs), axis_margin) >>
    IN  IF valid # {}
        THEN << lim(1), lim(2), lim(3) >>
        ELSE << <<Rat(-10, 1), Rat(10, 1)>>, <<Rat(-10, 1), Rat(10, 1)>>,
                <<Rat(-10, 1), Rat(10, 1)>> >>

ParseIdle ==
    /\ tsf_output = <<>>
    /\ timestep = 0
    /\ requested = 0
    /\ pc = "idle"
    /\ snapshots = <<>>
    /\ lines = <<>>
    /\ particle_count = None
    /\ simulation_time = None
    /\ positions = <<>>
    /\ velocities = <<>>
    /\ masses = <<>>
    /\ result = <<>>
    /\ error = NoErr

\* lines 33-37 and 81-93: the defaults are set and the files are read
Loaded(series_lists) ==
    /\ streams_data \in series_lists
    /\ stage = "loaded"
    /\ finest_dt = 0
    /\ master_time = <<>>
    /\ n_timesteps = 0
    /\ synced_cluster_positions = <<>>
    /\ synced_stream_positions = <<>>
    /\ settings = set_defaults(Len(streams_data))
    /\ x_limits = <<>>
    /\ y_limits = <<>>
    /\ z_limits = <<>>
    /\ animation = <<>>
    /\ figure = <<>>
    /\ axis = <<>>
    /\ last_call = "__init__"
    /\ raised = NoErr
    /\ animated = FALSE
    /\ n_configure = 0
    /\ drawn = <<>>
    /\ view_kwargs = "unset"
    /\ ParseIdle
    /\ ReadIdle

InitSync == Loaded(SeriesLists)

AllTimes == [s \in 1..Len(streams_data) |-> streams_data[s].times]

\* variant: with no series the timeline is the one point 0
CreateMasterTimeline_EmptyDefault ==
    /\ stage = "loaded"
    /\ IF Len(AllTimes) = 0
       THEN /\ finest_dt' = DefaultDt
            /\ master_time' = << Rat(0, 1) >>
            /\ n_timesteps' = 1
       ELSE /\ LET earliest_time == EarliestTime(AllTimes)
                   latest_time == LatestTime(AllTimes)
                   dt == FinestDt(AllTimes)
                   n_steps == NSteps(earliest_time, latest_time, dt)
               IN  /\ finest_dt' = dt
                   /\ master_time' = linspace(earliest_time, latest_time, n_steps)
                   /\ n_timesteps' = Len(master_time')
    /\ stage' = "timeline"
    /\ UNCHANGED <<streams_data, synced_cluster_positions, synced_stream_positions>>
    /\ UNCHANGED animVars
    /\ UNCHANGED <<parseVars, readVars>>

\* lines 100-118; min() of no values raises at line 103
CreateMasterTimeline ==
    /\ stage = "loaded"
    /\ IF Len(AllTimes) = 0
       THEN /\ stage' = "failed"
            /\ raised' = "min() arg is an empty sequence"
            /\ UNCHANGED <<finest_dt, master_time, n_timesteps>>
       ELSE /\ LET earliest_time == EarliestTime(AllTimes)
                   latest_time == LatestTime(AllTimes)
                   dt == FinestDt(AllTimes)
                   n_steps == NSteps(earliest_time, latest_time, dt)
               IN  /\ finest_dt' = dt
                   /\ master_time' = linspace(earliest_time, latest_time, n_steps)
                   /\ n_timesteps' = Len(master_time')
            /\ stage' = "timeline"
            /\ UNCHANGED raised
    /\ UNCHANGED <<streams_data, synced_cluster_positions, synced_stream_positions>>
    /\ UNCHANGED <<settings, x_limits, y_limits, z_limits, animation, figure, axis,
                   last_call, animated, n_configure, drawn, view_kwargs>>
    /\ UNCHANGED <<parseVars, readVars>>

\* lines 120-139
SyncAllStreams ==
    /\ stage = "timeline"
    /\ synced_cluster_positions' =
          [s \in 1..Len(streams_data) |->
              interpolate_to_master(master_time, streams_data[s].times,
                                    streams_data[s].cluster_positions)]
    /\ synced_stream_positions' =
          [s \in 1..Len(streams_data) |->
              interpolate_to_master(master_time, streams_data[s].times,
                                    streams_data[s].stream_positions)]
    /\ stage' = "synced"
    /\ UNCHANGED <<streams_data, finest_dt, master_time, n_timesteps>>
    /\ UNCHANGED <<parseVars, readVars, animVars>>

\* line 98 and lines 163-194; the constructor returns
CalculateAxisLimits ==
    /\ stage = "synced"
    /\ LET l == calculate_axis_limits(synced_cluster_positions,
                                      synced_stream_positions, settings.axis_margin)
       IN  x_limits' = l[1] /\ y_limits' = l[2] /\ z_limits' = l[3]
    /\ stage' = "ready"
    /\ UNCHANGED <<streams_data, finest_dt, master_time, n_timesteps,
                   synced_cluster_positions, synced_stream_positions>>
    /\ UNCHANGED <<settings, animation, figure, axis, last_call, raised, animated,
                   n_configure, drawn, view_kwargs>>
    /\ UNCHANGED <<parseVars, readVars>>

NextSync ==
    \/ CreateMasterTimeline
    \/ SyncAllStreams
    \/ CalculateAxisLimits

SpecSync == InitSync /\ [][NextSync]_vars

\* ------------------------------------------------------------------------
\* stream_animator.py : the methods of a constructed StreamAnimator
\* ------------------------------------------------------------------------
\* a configure/set call's keyword arguments are a function from names to
\* values
Has(kwargs, key) == key \in DOMAIN kwargs

Given(kwargs, key, current) == IF Has(kwargs, key) THEN kwargs[key] ELSE current

\* lines 199-219: the settings after configure(**kwargs)
configure_settings(st, kwargs) ==
    [ fps |-> Given(kwargs, "fps", st.fps),
      interval |-> Given(kwargs, "interval", st.interval),
      figure_size |-> Given(kwargs, "figure_size", st.figure_size),
      repeat |-> Given(kwargs, "repeat", st.repeat),
      cluster_colors |-> Given(kwargs, "cluster_colors", st.cluster_colors),
      stream_colors |-> Given(kwargs, "stream_colors", st.stream_colors),
      cluster_labels |-> Given(kwargs, "cluster_labels", st.cluster_labels),
      cluster_size |-> Given(kwargs, "cluster_size", st.cluster_size),
      cluster_marker |-> Given(kwargs, "cluster_marker", st.cluster_marker),
      stream_size |-> Given(kwargs, "stream_size", st.stream_size),
      stream_alpha |-> Given(kwargs, "stream_alpha", st.stream_alpha),
      axis_margin |-> Given(kwargs, "axis_margin", st.axis_margin),
      show_legend |-> Given(kwargs, "show_legend", st.show_legend),
      title_template |-> Given(kwargs, "title", st.title_template) ]

\* lines 216-223: <<x_limits, y_limits, z_limits>> after configure(**kwargs):
\* recomputed when axis_margin is given, then overwritten by the limits
\* given
configure_limits(kwargs) ==
    LET base == IF Has(kwargs, "axis_margin")
                THEN calculate_axis_limits(synced_cluster_positions,
                                           synced_stream_positions,
                                           kwargs["axis_margin"])
                ELSE << x_limits, y_limits, z_limits >>
    IN  << Given(kwargs, "x_limits", base[1]),
           Given(kwargs, "y_limits", base[2]),
           Given(kwargs, "z_limits", base[3]) >>

\* variant: the cluster is scattered whether or not its position is NaN
plot_single_stream_NoCheck(frame, stream_idx) ==
    LET cluster_pos == [c \in 1..3 |->
                           synced_cluster_positions[stream_idx][c][frame][1]]
        stream_pos == [c \in 1..3 |-> synced_stream_positions[stream_idx][c][frame]]
        valid_stream == { p \in 1..Len(stream_pos[1]) : ~IsNaN(stream_pos[1][p]) }
    IN  [cluster |-> << cluster_pos >>, stream |-> valid_stream]

\* lines 275-305: what one series contributes to a frame: the cluster
\* position scattered (<<>> if none) and the stream particles scattered
plot_single_stream(frame, stream_idx) ==
    LET cluster_pos == [c \in 1..3 |->
                           synced_cluster_positions[stream_idx][c][frame][1]]
        stream_pos == [c \in 1..3 |-> synced_stream_positions[stream_idx][c][frame]]
        valid_stream == { p \in 1..Len(stream_pos[1]) : ~IsNaN(stream_pos[1][p]) }
    IN  IF \A c \in 1..3 : ~IsNaN(cluster_pos[c])
        THEN [cluster |-> << cluster_pos >>, stream |-> valid_stream]
        ELSE [cluster |-> <<>>, stream |-> {}]

\* lines 252-273: the frames in ascending order, each with what every
\* series contributes to it
animate_frames(frames) ==
    [frame \in 1..frames |->
        [i \in 1..Len(streams_data) |-> plot_single_stream(frame, i)]]

\* lines 312-317
WriterFor(filename) == IF filename = "out.mp4" THEN "ffmpeg" ELSE "pillow"

\* variant: the handle is never taken to be there
MustAnimateFirst_Always == TRUE

\* lines 309 and 328
MustAnimateFirst == animation = <<>>

\* ------------------------------------------------------------------------
\* The calls: series lists, file names and keyword arguments
\* ------------------------------------------------------------------------
MaxConfigures == 2

\* a file whose positions are all NaN
MissingSeries ==
    [ times |-> <<0, 1>>,
      cluster_positions |-> [coord \in 1..3 |-> [t \in 1..2 |-> << NaNSample >>]],
      stream_positions |-> [coord \in 1..3 |-> [t \in 1..2 |-> << NaNSample >>]] ]

AnimFirst == { MakeSeries(1..(MaxSamples - 1), "zigzag", 1), MissingSeries }

AnimSecond == { MakeSeries({0, MaxTime}, "flat", MaxParticles), MissingSeries }

AnimLists ==
    { <<>> } \cup { <<a>> : a \in AnimFirst \cup AnimSecond }
             \cup { <<a, b>> : a \in AnimFirst, b \in AnimSecond }

Filenames == { "out.mp4", "out.gif", "out" }

CustomLimits == << Rat(-5, 1), Rat(5, 1) >>

\* every keyword of configure is named by some call, alone or together
\* with others; "colour" is a keyword configure does not know
KwargsPool ==
    { "fps" :> 60,
      ("interval" :> 50) @@ ("repeat" :> FALSE),
      ("figure_size" :> <<12, 9>>) @@ ("show_legend" :> FALSE)
          @@ ("title" :> "Time: {time}"),
      ("cluster_colors" :> <<"gold", "black">>)
          @@ ("stream_colors" :> <<"pink", "cyan">>)
          @@ ("cluster_labels" :> <<3, 4>>),
      ("cluster_size" :> 200) @@ ("cluster_marker" :> "o")
          @@ ("stream_size" :> 2) @@ ("stream_alpha" :> Rat(1, 2)),
      "axis_margin" :> Rat(2, 1),
      "x_limits" :> CustomLimits,
      ("y_limits" :> CustomLimits) @@ ("z_limits" :> CustomLimits),
      ("axis_margin" :> Rat(2, 1)) @@ ("x_limits" :> CustomLimits),
      "colour" :> "red" }

InitAnim == Loaded(AnimLists)

\* lines 196-225
Configure(kwargs) ==
    /\ stage = "ready"
    /\ n_configure < MaxConfigures
    /\ settings' = configure_settings(settings, kwargs)
    /\ LET l == configure_limits(kwargs)
       IN  x_limits' = l[1] /\ y_limits' = l[2] /\ z_limits' = l[3]
    /\ last_call' = "configure"
    /\ raised' = NoErr
    /\ n_configure' = n_configure + 1
    /\ UNCHANGED <<animation, figure, axis, animated, drawn, view_kwargs>>
    /\ UNCHANGED <<syncVars, parseVars, readVars>>

\* lines 227-229
Set(kwargs) ==
    /\ stage = "ready"
    /\ n_configure < MaxConfigures
    /\ settings' = configure_settings(settings, kwargs)
    /\ LET l == configure_limits(kwargs)
       IN  x_limits' = l[1] /\ y_limits' = l[2] /\ z_limits' = l[3]
    /\ last_call' = "set"
    /\ raised' = NoErr
    /\ n_configure' = n_configure + 1
    /\ UNCHANGED <<animation, figure, axis, animated, drawn, view_kwargs>>
    /\ UNCHANGED <<syncVars, parseVars, readVars>>

\* lines 236-250
Animate ==
    /\ stage = "ready"
    /\ figure' = << [figsize |-> settings.figure_size] >>
    /\ axis' = << [projection |-> "3d"] >>
    /\ animation' = << [frames |-> n_timesteps, interval |-> settings.interval,
                        blit |-> FALSE, repeat |-> settings.repeat] >>
    /\ animated' = TRUE
    /\ last_call' = "animate"
    /\ raised' = NoErr
    /\ UNCHANGED <<settings, x_limits, y_limits, z_limits, n_configure, drawn, view_kwargs>>
    /\ UNCHANGED <<syncVars, parseVars, readVars>>

\* lines 307-324
Save(filename) ==
    /\ stage = "ready"
    /\ last_call' = "save"
    /\ IF MustAnimateFirst
       THEN /\ raised' = "Must call animate() before save()"
            /\ UNCHANGED drawn
       ELSE /\ raised' = NoErr
            /\ drawn' = << [writer |-> WriterFor(filename), fps |-> settings.fps,
                            frames |-> animate_frames(animation[1].frames)] >>
    /\ UNCHANGED <<settings, x_limits, y_limits, z_limits, animation, figure, axis,
                   animated, n_configure, view_kwargs>>
    /\ UNCHANGED <<syncVars, parseVars, readVars>>

\* lines 326-332
Show ==
    /\ stage = "ready"
    /\ last_call' = "show"
    /\ IF MustAnimateFirst
       THEN /\ raised' = "Must call animate() before show()"
            /\ UNCHANGED drawn
       ELSE /\ raised' = NoErr
            /\ drawn' = << [writer |-> "screen", fps |-> 0,
                            frames |-> animate_frames(animation[1].frames)] >>
    /\ UNCHANGED <<settings, x_limits, y_limits, z_limits, animation, figure, axis,
                   animated, n_configure, view_kwargs>>
    /\ UNCHANGED <<syncVars, parseVars, readVars>>

ViewKwargs == { "elev" :> 30, ("elev" :> 20) @@ ("azim" :> 45) }

\* lines 231-234: no line of the class assigns view_kwargs, so the lookup
\* of the attribute raises; were it there, update() would merge kwargs
\* into it
MatplotlibConfig(kwargs) ==
    /\ stage = "ready"
    /\ last_call' = "matplotlib_config"
    /\ IF view_kwargs = "unset"
       THEN /\ raised' = "'StreamAnimator' object has no attribute 'view_kwargs'"
            /\ UNCHANGED view_kwargs
       ELSE /\ raised' = NoErr
            /\ view_kwargs' = kwargs @@ view_kwargs
    /\ UNCHANGED <<settings, x_limits, y_limits, z_limits, animation, figure, axis,
                   animated, n_configure, drawn>>
    /\ UNCHANGED <<syncVars, parseVars, readVars>>

NextAnim ==
    \/ CreateMasterTimeline
    \/ SyncAllStreams
    \/ CalculateAxisLimits
    \/ \E kwargs \in KwargsPool : Configure(kwargs)
    \/ \E kwargs \in KwargsPool : Set(kwargs)
    \/ Animate
    \/ \E filename \in Filenames : Save(filename)
    \/ Show
    \/ \E kwargs \in ViewKwargs : MatplotlibConfig(kwargs)

SpecAnim == InitAnim /\ [][NextAnim]_vars

\* parse_converted_falcon_output as a function of its two arguments:
\* <<error, result>>
parse_converted_falcon_output(text, ts) ==
    LET snaps == split_into_snapshots(text) IN
    IF snaps = <<>> THEN <<"No snapshots found", <<>> >>
    ELSE LET idx == ResolveIndex(ts, Len(snaps)) IN
    IF IndexOutOfRange(idx, Len(snaps)) THEN <<"Timestep not found", <<>> >>
    ELSE LET ls == SplitOn(snaps[idx + 1], NL)
             info == extract_simulation_info(ls) IN
    IF info.err # NoErr THEN <<info.err, <<>> >>
    ELSE LET p == extract_particle_array(ls, "Position", info.count, 3) IN
    IF p.err # NoErr THEN <<p.err, <<>> >>
    ELSE LET v == extract_particle_array(ls, "Velocity", info.count, 3) IN
    IF v.err # NoErr THEN <<v.err, <<>> >>
    ELSE LET m == extract_particle_array(ls, "Mass", info.count, 1) IN
    IF m.err # NoErr THEN <<m.err, <<>> >>
    ELSE <<NoErr, << [positions |-> p.value, velocities |-> v.value,
                      masses |-> m.value, time |-> info.time,
                      particle_count |-> info.count] >> >>

\* ------------------------------------------------------------------------
\* Properties of the parser
\* ------------------------------------------------------------------------
Terminal == pc \in {"done", "failed"}
Min(a, b) == IF a < b THEN a ELSE b

\* number of occurrences of the delimiter in the text
NumBlocks == Cardinality({i \in 1..Len(tsf_output) : tsf_output[i] = DELIM})

RangeError == error \in {"No snapshots found", "Timestep not found"}

\* the numeric sequence accumulated for array a in the selected block
Accumulated(a) ==
    extract_numbers_from_section(
        lines, find_array_start_line(lines, a, particle_count), a).numbers

\* C2: a returned result has positions and velocities of exactly
\* particle_count rows of 3 and masses of exactly particle_count entries;
\* a block with too few numeric tokens is rejected, never returned short.
C2_ArraysMatchCount ==
    pc = "done" =>
        /\ Len(result[1].positions) = result[1].particle_count
        /\ \A r \in 1..Len(result[1].positions) : Len(result[1].positions[r]) = 3
        /\ Len(result[1].velocities) = result[1].particle_count
        /\ \A r \in 1..Len(result[1].velocities) : Len(result[1].velocities[r]) = 3
        /\ Len(result[1].masses) = result[1].particle_count

\* C3: with N blocks the parse fails with the range error exactly for the
\* timestep indexes outside [-N, N-1] (every index when N = 0), and then
\* returns nothing.
C3_RangeErrorExactlyOutside ==
    (Terminal \/ pc \notin {"split", "select"}) =>
        /\ RangeError <=> requested \notin (0 - NumBlocks)..(NumBlocks - 1)
        /\ RangeError => pc = "failed" /\ result = <<>>

C3_Witness ==
    /\ pc = "failed"
    /\ error = "Timestep not found"
    /\ NumBlocks >= 1
    /\ requested = NumBlocks

\* the position (1-based) of the block a timestep index selects
Selected == IF requested >= 0 THEN requested + 1 ELSE NumBlocks + requested + 1

\* the text from its first delimiter on
FromFirstDelim ==
    IF NumBlocks = 0 THEN <<>>
    ELSE LET i == CHOOSE k \in 1..Len(tsf_output) :
                     tsf_output[k] = DELIM /\ \A j \in 1..(k-1) : tsf_output[j] # DELIM
         IN  SubSeq(tsf_output, i, Len(tsf_output))

RECURSIVE JoinWith(_, _)
JoinWith(ss, sep) ==
    IF Len(ss) = 0 THEN <<>>
    ELSE IF Len(ss) = 1 THEN ss[1]
    ELSE ss[1] \o <<sep>> \o JoinWith(Tail(ss), sep)

\* C4: the blocks are the segments that each start at one occurrence of
\* the delimiter, in order, the text before the first one discarded; index
\* i >= 0 selects block i+1, i < 0 selects block N+i+1; for a single block
\* the indexes 0 and -1 give the same outcome.
C4_BlocksAndSelection ==
    /\ pc # "split" =>
          /\ Len(snapshots) = NumBlocks
          /\ \A k \in 1..Len(snapshots) :
                /\ snapshots[k][1] = DELIM
                /\ \A j \in 2..Len(snapshots[k]) : snapshots[k][j] # DELIM
          /\ Concat(snapshots) = FromFirstDelim
    /\ (pc \notin {"split", "select"} /\ ~RangeError) =>
          /\ Selected \in 1..NumBlocks
          /\ JoinWith(lines, NL) = snapshots[Selected]
          /\ \A i \in 1..Len(lines) : \A j \in 1..Len(lines[i]) : lines[i][j] # NL
    /\ (Terminal /\ NumBlocks = 1 /\ requested \in {0, -1}) =>
          /\ <<error, result>> = parse_converted_falcon_output(tsf_output, 0)
          /\ <<error, result>> = parse_converted_falcon_output(tsf_output, -1)

C4_Witness ==
    /\ pc = "done"
    /\ NumBlocks = 2
    /\ requested = -1
    /\ result[1].time = 2
    /\ tsf_output[1] # DELIM

HasNobj(ls) == \E i \in 1..Len(ls) : ContainsPair(ls[i], "int", "Nobj")
HasLabel(ls, a, count) ==
    \E i \in 1..Len(ls) : \E k \in 1..Len(ls[i]) : ls[i][k] = Arr(a, count)

\* the count the block declares: the value on its last 'int Nobj' line
DeclaredCount(ls) ==
    LET i == CHOOSE k \in 1..Len(ls) :
                /\ ContainsPair(ls[k], "int", "Nobj")
                /\ \A j \in (k+1)..Len(ls) : ~ContainsPair(ls[j], "int", "Nobj")
    IN  ls[i][Len(ls[i])].n

Selection == pc \notin {"split", "select"} /\ ~RangeError

\* C5: a selected block without an 'int Nobj' line, or without a line
\* holding Name[particle_count] for one of Position, Velocity, Mass, ends in
\* an error and no result; a result, when there is one, holds all five
\* fields.
C5_MissingDeclarationFails ==
    /\ result # <<>> =>
          /\ pc = "done"
          /\ Len(result) = 1
          /\ DOMAIN result[1] =
                {"positions", "velocities", "masses", "time", "particle_count"}
    /\ (/\ Terminal
        /\ Selection
        /\ \/ ~HasNobj(lines)
           \/ \E a \in ArrayNames : ~HasLabel(lines, a, DeclaredCount(lines)))
       => (pc = "failed" /\ error # NoErr /\ result = <<>>)

C5_Witness ==
    /\ pc = "failed"
    /\ error = "Could not find array"
    /\ HasNobj(lines)
    /\ HasLabel(lines, "Position", particle_count)
    /\ ~HasLabel(lines, "Velocity", particle_count)
    /\ positions # <<>>
    /\ result = <<>>

\* C6: masses are the first N accumulated values, positions and
\* velocities the first 3N accumulated values read row-major; accumulated
\* values beyond those are dropped without error.
C6_ReshapeRowMajor ==
    pc = "done" =>
        LET n == particle_count IN
        /\ Len(Accumulated("Mass")) >= n =>
              /\ Len(masses) = n
              /\ \A i \in 1..n : masses[i] = Accumulated("Mass")[i]
        /\ Len(Accumulated("Position")) >= 3 * n
        /\ Len(positions) = n
        /\ \A r \in 1..n : \A c \in 1..3 :
              positions[r][c] = Accumulated("Position")[3 * (r - 1) + c]
        /\ Len(Accumulated("Velocity")) >= 3 * n
        /\ Len(velocities) = n
        /\ \A r \in 1..n : \A c \in 1..3 :
              velocities[r][c] = Accumulated("Velocity")[3 * (r - 1) + c]
        /\ result[1].positions = positions
        /\ result[1].velocities = velocities
        /\ result[1].masses = masses
        /\ result[1].particle_count = n

C6_Witness ==
    /\ pc = "done"
    /\ particle_count = 2
    /\ Len(Accumulated("Position")) > 6
    /\ Len(Accumulated("Mass")) = 2
    /\ positions = << <<101, 102, 103>>, <<104, 105, 106>> >>

\* ------------------------------------------------------------------------
\* Properties of the synchronizer
\* ------------------------------------------------------------------------
TimelineBuilt == stage \in {"timeline", "synced", "ready"}

Synced == stage \in {"synced", "ready"}
Series == 1..Len(streams_data)
SampleTimes(s) == { streams_data[s].times[j] : j \in 1..Len(streams_data[s].times) }
AllSampleTimes == UNION { SampleTimes(s) : s \in Series }
SetMin(S) == CHOOSE x \in S : \A y \in S : x <= y
SetMax(S) == CHOOSE x \in S : \A y \in S : x >= y
Earliest == SetMin(AllSampleTimes)
Latest == SetMax(AllSampleTimes)
MultiSample == { s \in Series : Len(streams_data[s].times) > 1 }
FirstStep(s) == Abs(streams_data[s].times[2] - streams_data[s].times[1])

\* every entry of series s at master index i, cluster and stream
EntriesAt(s, i) ==
    { synced_cluster_positions[s][c][i][1] : c \in 1..3 }
    \cup { synced_stream_positions[s][c][i][p] :
              c \in 1..3, p \in 1..Len(streams_data[s].stream_positions[1][1]) }

\* C1: after synchronization every entry of a series at a master-grid time
\* below the series' minimum time or above its maximum time is NaN.
C1_NoDataOutsideCoverage ==
    Synced =>
        \A s \in Series : \A i \in 1..n_timesteps :
            (\/ Less(master_time[i], Rat(SetMin(SampleTimes(s)), 1))
             \/ Less(Rat(SetMax(SampleTimes(s)), 1), master_time[i]))
            => \A v \in EntriesAt(s, i) : IsNaN(v)

Spacing(i) == Minus(master_time[i+1], master_time[i])

\* C7: the master timeline has floor((latest - earliest) / finest_step) + 1
\* points, evenly spaced and ascending, the first equal to earliest and,
\* when there are several, the last equal to latest.
C7_MasterTimelineShape ==
    TimelineBuilt =>
        LET k == n_timesteps - 1 IN
        /\ n_timesteps >= 1
        /\ Len(master_time) = n_timesteps
        /\ k * finest_dt <= Latest - Earliest
        /\ Latest - Earliest < (k + 1) * finest_dt
        /\ master_time[1] = Rat(Earliest, 1)
        /\ n_timesteps > 1 => master_time[n_timesteps] = Rat(Latest, 1)
        /\ \A i \in 1..k :
              /\ Less(master_time[i], master_time[i+1])
              /\ Spacing(i) = Spacing(1)

C7_Witness ==
    /\ TimelineBuilt
    /\ Len(streams_data) = 2
    /\ n_timesteps = 2
    /\ (Latest - Earliest) % finest_dt # 0
    /\ SetMax(SampleTimes(1)) < Latest
    /\ SetMin(SampleTimes(2)) > Earliest

\* the smallest step between consecutive samples of any series
SmallestObservedStep ==
    SetMin({ d \in 1..MaxTime :
               \E s \in Series : \E j \in 1..(Len(streams_data[s].times) - 1) :
                   streams_data[s].times[j+1] - streams_data[s].times[j] = d })

\* C8 as stated: when some series has more than one sample, consecutive
\* master-timeline points are the smallest observed sample step apart.
C8_SpacingIsSmallestObservedStep ==
    (TimelineBuilt /\ MultiSample # {}) =>
        \A i \in 1..(n_timesteps - 1) : Spacing(i) = Rat(SmallestObservedStep, 1)

\* C8 amended: when some series has more than one sample, consecutive
\* master-timeline points are (latest - earliest) / (points - 1) apart; that
\* is never less than finest_step, the smallest first step |times[1] -
\* times[0]| of such a series, and equals it exactly when latest - earliest
\* is a whole multiple of finest_step.
C8_SpacingAtLeastFinestStep ==
    (TimelineBuilt /\ MultiSample # {}) =>
        LET step == SetMin({ FirstStep(s) : s \in MultiSample }) IN
        /\ n_timesteps >= 2
        /\ \A i \in 1..(n_timesteps - 1) :
              /\ Spacing(i) = Rat(Latest - Earliest, n_timesteps - 1)
              /\ Leq(Rat(step, 1), Spacing(i))
              /\ Spacing(i) = Rat(step, 1) <=> (Latest - Earliest) % step = 0

C8_Witness ==
    /\ TimelineBuilt
    /\ MultiSample # {}
    /\ n_timesteps >= 2
    /\ (Latest - Earliest) % finest_dt # 0
    /\ Less(Rat(finest_dt, 1), Spacing(1))

\* C9: finest_step is the smallest |times[1] - times[0]| over the series
\* with more than one sample, and 0.5 (one tick) when there is none.
C9_FinestStep ==
    TimelineBuilt =>
        /\ MultiSample # {} =>
              /\ \E s \in MultiSample : finest_dt = FirstStep(s)
              /\ \A s \in MultiSample : finest_dt <= FirstStep(s)
        /\ MultiSample = {} => finest_dt = 1

C9_Witness ==
    /\ TimelineBuilt
    /\ Len(streams_data) = 2
    /\ Len(streams_data[1].times) = 1
    /\ Len(streams_data[2].times) = 3
    /\ finest_dt = 2
    /\ streams_data[2].times[3] - streams_data[2].times[2] = 1

NativeGridIsMaster ==
    /\ Len(streams_data) = 1
    /\ master_time = [i \in 1..Len(streams_data[1].times) |->
                         Rat(streams_data[1].times[i], 1)]

\* C10: a single series whose native time grid equals the master grid
\* point for point is synced to its original values, with no NaN.
C10_SingleSeriesIdentity ==
    (Synced /\ NativeGridIsMaster) =>
        \A c \in 1..3 : \A i \in 1..n_timesteps :
            /\ synced_cluster_positions[1][c][i]
                 = << Rat(streams_data[1].cluster_positions[c][i][1], 1) >>
            /\ synced_stream_positions[1][c][i]
                 = [p \in 1..Len(streams_data[1].stream_positions[c][i]) |->
                       Rat(streams_data[1].stream_positions[c][i][p], 1)]
            /\ \A v \in EntriesAt(1, i) : ~IsNaN(v)

C10_Witness ==
    /\ stage = "synced"
    /\ NativeGridIsMaster
    /\ n_timesteps = 3
    /\ streams_data[1].cluster_positions[1][2][1] # streams_data[1].cluster_positions[1][1][1]
    /\ Len(streams_data[1].stream_positions[1][1]) = 2

\* ------------------------------------------------------------------------
\* Properties of the parser, continued
\* ------------------------------------------------------------------------
\* C11: a non-numeric token in an array's data section, on the declaration
\* line after the bracket or on a later data line, never makes the parse
\* fail and never changes the order or the values of the accumulated
\* numbers (the texts list each array's numbers in ascending order).
C11_NonNumericSkipped ==
    /\ ~(pc = "failed" /\ error = "invalid literal")
    /\ pc = "done" =>
          \A a \in ArrayNames :
              \A i \in 1..(Len(Accumulated(a)) - 1) :
                  Accumulated(a)[i] < Accumulated(a)[i+1]

HasTime(ls) == \E i \in 1..Len(ls) : ContainsPair(ls[i], "double", "Time")

\* the lines with a 'double Time' line put right after the 'int Nobj' line
InsertTimeLine(ls) ==
    LET i == CHOOSE k \in 1..Len(ls) :
                /\ ContainsPair(ls[k], "int", "Nobj")
                /\ \A j \in (k+1)..Len(ls) : ~ContainsPair(ls[j], "int", "Nobj")
    IN  SubSeq(ls, 1, i)
        \o << <<Word("double"), Word("Time"), Num(VariedTime)>> >>
        \o SubSeq(ls, i+1, Len(ls))

\* the outcome <<error, result>> of lines 166-179 on the lines of a block
ParseLines(ls) ==
    LET info == extract_simulation_info(ls) IN
    IF info.err # NoErr THEN <<info.err, <<>> >>
    ELSE LET p == extract_particle_array(ls, "Position", info.count, 3) IN
    IF p.err # NoErr THEN <<p.err, <<>> >>
    ELSE LET v == extract_particle_array(ls, "Velocity", info.count, 3) IN
    IF v.err # NoErr THEN <<v.err, <<>> >>
    ELSE LET m == extract_particle_array(ls, "Mass", info.count, 1) IN
    IF m.err # NoErr THEN <<m.err, <<>> >>
    ELSE <<NoErr, << [positions |-> p.value, velocities |-> v.value,
                      masses |-> m.value, time |-> info.time,
                      particle_count |-> info.count] >> >>

\* C15: a block with an 'int Nobj' line and no 'double Time' line parses
\* exactly as the same block with a Time line does, success or failure,
\* except that the returned time is None.
C15_TimeOptional ==
    (Terminal /\ Selection /\ HasNobj(lines) /\ ~HasTime(lines)) =>
        LET w == ParseLines(InsertTimeLine(lines)) IN
        /\ pc = "done" <=> w[1] = NoErr
        /\ pc = "failed" => error = w[1]
        /\ pc = "done" =>
              /\ result[1].time = None
              /\ w[2][1].time = VariedTime
              /\ result[1].positions = w[2][1].positions
              /\ result[1].velocities = w[2][1].velocities
              /\ result[1].masses = w[2][1].masses
              /\ result[1].particle_count = w[2][1].particle_count

C15_Witness ==
    /\ pc = "done"
    /\ HasNobj(lines)
    /\ ~HasTime(lines)
    /\ \A a \in ArrayNames : HasLabel(lines, a, particle_count)
    /\ particle_count = 2
    /\ result[1].time = None
    /\ Len(result[1].masses) = 2

\* -- C16 --
IsStopLine(line, a) ==
    \/ line = <<Word("tes")>>
    \/ /\ Len(line) > 1
       /\ line[1] \in {Word("float"), Word("double")}
       /\ \A k \in 1..Len(line) : line[k].name # a

IsHeader(line) ==
    /\ line # <<>>
    /\ \/ line[1] = DELIM
       \/ line[1] = Word("tes")
       \/ Len(line) > 1 /\ line[1] \in {Word("int"), Word("double"), Word("float"),
                                         Word("char"), Word("set")}

DeclLine(a) ==
    CHOOSE i \in 1..Len(lines) :
        /\ \E k \in 1..Len(lines[i]) : lines[i][k] = Arr(a, particle_count)
        /\ \A j \in 1..(i-1) : \A k \in 1..Len(lines[j]) : lines[j][k] # Arr(a, particle_count)

\* the first stop line at or after the declaration line, or one past the end
StopLine(a) ==
    IF \E i \in DeclLine(a)..Len(lines) : IsStopLine(lines[i], a)
    THEN CHOOSE i \in DeclLine(a)..Len(lines) :
            /\ IsStopLine(lines[i], a)
            /\ \A j \in DeclLine(a)..(i-1) : ~IsStopLine(lines[j], a)
    ELSE Len(lines) + 1

RECURSIVE NumbersOf(_)
NumbersOf(toks) ==
    IF toks = <<>> THEN <<>>
    ELSE (IF toks[1].kind = "num" THEN <<toks[1].n>> ELSE <<>>) \o NumbersOf(Tail(toks))

\* what one line before the stop line adds: the numbers after the label on
\* a line carrying A's label, nothing for other header lines, and the
\* numbers of a data line
Contribution(line, a) ==
    IF \E k \in 1..Len(line) : line[k].kind = "arr" /\ line[k].name = a
    THEN LET k == CHOOSE k \in 1..Len(line) :
                     line[k].kind = "arr" /\ \A j \in 1..(k-1) : line[j].kind # "arr"
         IN  NumbersOf(SubSeq(line, k+1, Len(line)))
    ELSE IF IsHeader(line) THEN <<>>
    ELSE NumbersOf(line)

RECURSIVE Gather(_, _, _)
Gather(a, i, stop) ==
    IF i >= stop THEN <<>> ELSE Contribution(lines[i], a) \o Gather(a, i+1, stop)

Scanned(a) ==
    /\ pc \in {"position", "velocity", "mass", "return", "done", "failed"}
    /\ particle_count # None
    /\ HasLabel(lines, a, particle_count)
    /\ extract_numbers_from_section(lines, DeclLine(a), a).err = NoErr

\* C16: the sequence accumulated for array A is made of the numbers that
\* follow the label on A's declaration line and then, in line order and
\* token order, the numeric tokens of every non-header line before the
\* first stop line ('tes', or a 'float '/'double ' line that does not
\* contain A), '. . .' markers removed; nothing of the stop line or of a
\* later line is in it.
C16_AccumulatedSequence ==
    \A a \in ArrayNames :
        Scanned(a) => Accumulated(a) = Gather(a, DeclLine(a), StopLine(a))

C16_Witness ==
    /\ pc = "done"
    /\ Scanned("Position")
    /\ Len(lines[DeclLine("Position")]) > 2
    /\ \E i \in DeclLine("Position")..(StopLine("Position") - 1) :
          \E k \in 1..Len(lines[i]) : lines[i][k] = DOTS
    /\ StopLine("Position") <= Len(lines)
    /\ lines[StopLine("Position")][1] = Word("double")
    /\ Len(Accumulated("Position")) = 3 * particle_count

\* ------------------------------------------------------------------------
\* nemo_reader.py : read_nemo
\* ------------------------------------------------------------------------
\* variant: the path is built without looking at the environment
get_nemo_binary_path_NoCheck(path_set) ==
    [err |-> NoErr, path |-> "NEMO_PATH/bin/tsf"]

\* lines 83-107
get_nemo_binary_path(path_set) ==
    IF ~path_set
    THEN [err |-> "NEMO_PATH environment variable not set", path |-> ""]
    ELSE [err |-> NoErr, path |-> "NEMO_PATH/bin/tsf"]

\* lines 32-38: positions and velocities transposed to shape (3, N)
create_gala_phase_space(pos, vel) ==
    [pos |-> [c \in 1..3 |-> [r \in 1..Len(pos) |-> pos[r][c]]],
     vel |-> [c \in 1..3 |-> [r \in 1..Len(vel) |-> vel[r][c]]]]

InitRead ==
    /\ nemo_path_set \in BOOLEAN
    /\ read_pc = "path"
    /\ tsf_runs = 0
    /\ read_error = NoErr
    /\ nemo_data = <<>>
    /\ tsf_output = <<>>
    /\ timestep \in Timesteps
    /\ requested = timestep
    /\ pc = "idle"
    /\ snapshots = <<>>
    /\ lines = <<>>
    /\ particle_count = None
    /\ simulation_time = None
    /\ positions = <<>>
    /\ velocities = <<>>
    /\ masses = <<>>
    /\ result = <<>>
    /\ error = NoErr
    /\ SyncIdle

\* line 74
GetNemoBinaryPath ==
    /\ read_pc = "path"
    /\ LET r == get_nemo_binary_path(nemo_path_set) IN
       IF r.err # NoErr
       THEN read_pc' = "failed" /\ read_error' = r.err
       ELSE read_pc' = "convert" /\ UNCHANGED read_error
    /\ UNCHANGED <<nemo_path_set, tsf_runs, nemo_data>>
    /\ UNCHANGED <<parseVars, syncVars, animVars>>

\* line 76 and lines 110-130: the converter runs; it exits non-zero
\* (check=True raises) or prints some text
ConvertDataUsingTSF ==
    /\ read_pc = "convert"
    /\ tsf_runs' = tsf_runs + 1
    /\ \/ /\ read_pc' = "failed"
          /\ read_error' = "CalledProcessError"
          /\ UNCHANGED <<tsf_output, pc>>
       \/ /\ tsf_output' \in Texts
          /\ pc' = "split"
          /\ read_pc' = "parse"
          /\ UNCHANGED read_error
    /\ UNCHANGED <<nemo_path_set, nemo_data>>
    /\ UNCHANGED <<timestep, snapshots, lines, particle_count, simulation_time,
                   positions, velocities, masses, result, error, requested>>
    /\ UNCHANGED <<syncVars, animVars>>

\* line 78: an error of the parse leaves read_nemo
ParseRaised ==
    /\ read_pc = "parse"
    /\ pc = "failed"
    /\ read_pc' = "failed"
    /\ read_error' = error
    /\ UNCHANGED <<nemo_path_set, tsf_runs, nemo_data>>
    /\ UNCHANGED <<parseVars, syncVars, animVars>>

\* line 80 and lines 323-331
CreateNemoData ==
    /\ read_pc = "parse"
    /\ pc = "done"
    /\ nemo_data' = << [positions |-> result[1].positions,
                        velocities |-> result[1].velocities,
                        masses |-> result[1].masses,
                        time |-> result[1].time,
                        particle_count |-> result[1].particle_count,
                        phase_space_position |->
                            create_gala_phase_space(result[1].positions,
                                                    result[1].velocities)] >>
    /\ read_pc' = "done"
    /\ UNCHANGED <<nemo_path_set, tsf_runs, read_error>>
    /\ UNCHANGED <<parseVars, syncVars, animVars>>

NextRead ==
    \/ GetNemoBinaryPath
    \/ ConvertDataUsingTSF
    \/ SplitIntoSnapshots
    \/ SelectSnapshot
    \/ ExtractSimulationInfo
    \/ ExtractPositions
    \/ ExtractVelocities
    \/ ExtractMasses
    \/ ReturnResult
    \/ ParseRaised
    \/ CreateNemoData

SpecRead == InitRead /\ [][NextRead]_vars

\* C13: without NEMO_PATH read_nemo ends in the configuration error before
\* the converter is run and before any parsing step: neither
\* convert_data_using_TSF nor parse_converted_falcon_output is reached.
C13_NoPathNoConversion ==
    ~nemo_path_set =>
        /\ read_pc \in {"path", "failed"}
        /\ read_pc = "failed" => read_error = "NEMO_PATH environment variable not set"
        /\ tsf_runs = 0
        /\ tsf_output = <<>>
        /\ pc = "idle"
        /\ snapshots = <<>>
        /\ result = <<>>
        /\ nemo_data = <<>>

C13_Witness ==
    /\ ~nemo_path_set
    /\ read_pc = "failed"
    /\ read_error = "NEMO_PATH environment variable not set"
    /\ tsf_runs = 0

\* C14: built from an empty list of series the constructor fails with an
\* error: there is no master timeline, there are no synced series and no
\* axis limits, and no animator is returned (the construction never gets
\* to its end and no method is ever called on the object).
C14_EmptyListFails ==
    Len(streams_data) = 0 =>
        /\ stage \in {"idle", "loaded", "failed"}
        /\ stage = "failed" => raised # NoErr
        /\ master_time = <<>>
        /\ n_timesteps = 0
        /\ synced_cluster_positions = <<>>
        /\ synced_stream_positions = <<>>
        /\ x_limits = <<>> /\ y_limits = <<>> /\ z_limits = <<>>
        /\ last_call \in {"idle", "__init__"}

C14_Witness ==
    /\ Len(streams_data) = 0
    /\ stage = "failed"
    /\ raised = "min() arg is an empty sequence"
    /\ last_call = "__init__"

\* the master-grid point i lies within the native time range of series s
InRange(s, i) ==
    /\ Leq(Rat(SetMin(SampleTimes(s)), 1), master_time[i])
    /\ Leq(master_time[i], Rat(SetMax(SampleTimes(s)), 1))

\* v is the value at time t of the polyline through the samples fs at the
\* ascending times ts
LinearAt(ts, fs, t, v) ==
    /\ ~IsNaN(v)
    /\ \E j \in 1..Len(ts) :
          \/ Rat(ts[j], 1) = t /\ v = Rat(fs[j], 1)
          \/ /\ j < Len(ts)
             /\ Less(Rat(ts[j], 1), t) /\ Less(t, Rat(ts[j+1], 1))
             /\ v.num * t.den * (ts[j+1] - ts[j])
                  = v.den * (  fs[j] * (ts[j+1] * t.den - t.num)
                             + fs[j+1] * (t.num - ts[j] * t.den))

NativeSamples(pos, c, p) == [j \in 1..Len(pos[c]) |-> pos[c][j][p]]

Shaped(synced, native) ==
    /\ Len(synced) = 3
    /\ \A c \in 1..3 :
          /\ Len(synced[c]) = n_timesteps
          /\ \A i \in 1..n_timesteps : Len(synced[c][i]) = Len(native[1][1])

\* C17: every synced cluster and stream array has shape (3, master grid
\* length, the series' own particle count), and at every master-grid point
\* within the series' native time range each entry is a number, the linear
\* interpolation at that point of the native samples of the same coordinate
\* and particle of the same series; series of different particle counts
\* are synchronized side by side.
C17_ShapeAndInterpolation ==
    Synced =>
        \A s \in Series :
            /\ Shaped(synced_cluster_positions[s], streams_data[s].cluster_positions)
            /\ Shaped(synced_stream_positions[s], streams_data[s].stream_positions)
            /\ \A i \in 1..n_timesteps : InRange(s, i) =>
                  \A c \in 1..3 :
                     /\ LinearAt(streams_data[s].times,
                                 NativeSamples(streams_data[s].cluster_positions, c, 1),
                                 master_time[i],
                                 synced_cluster_positions[s][c][i][1])
                     /\ \A p \in 1..Len(streams_data[s].stream_positions[1][1]) :
                           LinearAt(streams_data[s].times,
                                    NativeSamples(streams_data[s].stream_positions, c, p),
                                    master_time[i],
                                    synced_stream_positions[s][c][i][p])

\* two series of different particle counts, one of them interpolated at a
\* grid point strictly between two of its samples whose values differ
C17_Witness ==
    /\ Synced
    /\ Len(streams_data) = 2
    /\ Len(streams_data[1].stream_positions[1][1])
         # Len(streams_data[2].stream_positions[1][1])
    /\ \E i \in 1..n_timesteps :
          /\ InRange(1, i)
          /\ \A j \in 1..Len(streams_data[1].times) :
                Rat(streams_data[1].times[j], 1) # master_time[i]
          /\ \A j \in 1..Len(streams_data[1].times) :
                Rat(streams_data[1].stream_positions[1][j][1], 1)
                  # synced_stream_positions[1][1][i][1]

\* every synced cluster and stream value of coordinate c, over all series,
\* grid points and particles, that is a number
ValidValues(c) ==
    UNION { { synced_cluster_positions[s][c][i][1] : i \in 1..n_timesteps }
            \cup { synced_stream_positions[s][c][i][p] :
                      i \in 1..n_timesteps,
                      p \in 1..Len(streams_data[s].stream_positions[1][1]) }
          : s \in Series } \ { NaN }

PaddedRange(c, margin) ==
    IF \A d \in 1..3 : ValidValues(d) = {}
    THEN << Rat(-10, 1), Rat(10, 1) >>
    ELSE << Minus(RatMin(ValidValues(c)), margin),
            Plus(RatMax(ValidValues(c)), margin) >>

Limits == << x_limits, y_limits, z_limits >>

LimitKeys == << "x_limits", "y_limits", "z_limits" >>

Constructed == stage = "ready" /\ last_call = "__init__"

\* the step is a configure or set call that names axis_margin
SetsMargin(kwargs) ==
    /\ Has(kwargs, "axis_margin")
    /\ Configure(kwargs) \/ Set(kwargs)

C19_WitnessFallback ==
    /\ stage = "ready"
    /\ Len(streams_data) >= 1
    /\ \A d \in 1..3 : ValidValues(d) = {}
    /\ Limits = << << Rat(-10, 1), Rat(10, 1) >>, << Rat(-10, 1), Rat(10, 1) >>,
                   << Rat(-10, 1), Rat(10, 1) >> >>

\* the step is a configure or set call with these keyword arguments
Configures(kwargs) == Configure(kwargs) \/ Set(kwargs)

SettingFields == DOMAIN set_defaults(0)

\* the keyword that names a setting
KeyOf(field) == IF field = "title_template" THEN "title" ELSE field

\* C20: a configure/set call changes only the settings its keyword
\* arguments name: every other setting, every axis limit it does not
\* name, the master timeline, the synced arrays and the animation handle
\* keep their values; so limits given explicitly stay through every later
\* call that does not name them.
C20_ConfigureFrame ==
    [][\A kwargs \in KwargsPool : Configures(kwargs) =>
          /\ \A f \in SettingFields :
                ~Has(kwargs, KeyOf(f)) => settings'[f] = settings[f]
          /\ \A c \in 1..3 :
                ~Has(kwargs, LimitKeys[c]) => Limits'[c] = Limits[c]
          /\ UNCHANGED <<master_time, n_timesteps, finest_dt,
                         synced_cluster_positions, synced_stream_positions,
                         animation>>]_vars

\* what does hold: the same for every call that does not name axis_margin
C20_FrameWithoutMargin ==
    [][\A kwargs \in KwargsPool :
          (Configures(kwargs) /\ ~Has(kwargs, "axis_margin")) =>
              /\ \A f \in SettingFields :
                    ~Has(kwargs, KeyOf(f)) => settings'[f] = settings[f]
              /\ \A c \in 1..3 :
                    ~Has(kwargs, LimitKeys[c]) => Limits'[c] = Limits[c]
              /\ UNCHANGED <<master_time, n_timesteps, finest_dt,
                             synced_cluster_positions, synced_stream_positions,
                             animation>>]_vars

\* the last part of C20 alone: x limits given explicitly (the computed
\* ranges of these inputs never equal CustomLimits) stay through a later
\* call that does not name x_limits
C20_ExplicitLimitsKept ==
    [][\A kwargs \in KwargsPool :
          (Configures(kwargs) /\ ~Has(kwargs, "x_limits") /\ x_limits = CustomLimits)
              => x_limits' = CustomLimits]_vars

PreconditionError ==
    { "Must call animate() before save()", "Must call animate() before show()" }

\* C12: in every sequence of configure/set/animate/save/show calls, save()
\* and show() raise the precondition error exactly when animate() has not
\* been called before; after animate() no configure/set call takes the
\* handle away again; a save()/show() that raises changes nothing of the
\* animator.
C12_RenderNeedsAnimate ==
    /\ [](last_call \in {"save", "show"} =>
            /\ raised \in PreconditionError <=> ~animated
            /\ raised # NoErr => raised \in PreconditionError)
    /\ [][(animated /\ \E kwargs \in KwargsPool : Configures(kwargs))
              => ~MustAnimateFirst']_vars
    /\ [][(last_call' \in {"save", "show"} /\ raised' # NoErr) =>
              UNCHANGED <<syncVars, settings, x_limits, y_limits, z_limits,
                          animation, figure, axis, drawn, view_kwargs>>]_vars

\* save() went through after a configure call that followed animate()
C12_Witness ==
    /\ last_call = "save"
    /\ animated
    /\ raised = NoErr
    /\ animation[1].interval # settings.interval

\* save() was refused on an animator that was configured but not animated
C12_WitnessRefused ==
    /\ last_call = "save"
    /\ ~animated
    /\ raised = "Must call animate() before save()"
    /\ n_configure > 0

ClusterThere(s, frame) ==
    \A c \in 1..3 : ~IsNaN(synced_cluster_positions[s][c][frame][1])

DrawnAt(s, frame) ==
    \/ drawn[1].frames[frame][s].cluster # <<>>
    \/ drawn[1].frames[frame][s].stream # {}

\* C18: the animation walks the master grid in ascending index; at a frame
\* a series is drawn (its cluster, and its stream particles that are
\* numbers) exactly when its synced cluster position there is not "no
\* data", and neither is drawn otherwise; the frames at which a series is
\* drawn form one interval of indices.
C18_DrawnWhereClusterKnown ==
    drawn # <<>> =>
        /\ Len(drawn[1].frames) = n_timesteps
        /\ \A s \in Series : \A frame \in 1..n_timesteps :
              /\ drawn[1].frames[frame][s].cluster # <<>> <=> ClusterThere(s, frame)
              /\ ~ClusterThere(s, frame) => ~DrawnAt(s, frame)
              /\ ClusterThere(s, frame) =>
                    drawn[1].frames[frame][s].stream
                      = { p \in 1..Len(streams_data[s].stream_positions[1][1]) :
                             ~IsNaN(synced_stream_positions[s][1][frame][p]) }
        /\ \A s \in Series : \A f1, f2, f3 \in 1..n_timesteps :
              (f1 < f2 /\ f2 < f3 /\ DrawnAt(s, f1) /\ DrawnAt(s, f3)) => DrawnAt(s, f2)

\* a series that is not drawn at the first frame, drawn later and not
\* drawn at the last
C18_Witness ==
    /\ drawn # <<>>
    /\ \E s \in Series :
          /\ ~DrawnAt(s, 1)
          /\ \E frame \in 2..(n_timesteps - 1) : DrawnAt(s, frame)
          /\ ~DrawnAt(s, n_timesteps)

ChainedCalls == { "configure", "set", "matplotlib_config", "animate" }

\* C21: on a constructed animator each of configure, set,
\* matplotlib_config and animate completes without an error (and so hands
\* the animator back), in any order and any number of times.
C21_ChainedCallsComplete ==
    (stage = "ready" /\ last_call \in ChainedCalls) => raised = NoErr

\* what does hold: the same without matplotlib_config
C21_OtherCallsComplete ==
    (stage = "ready" /\ last_call \in ChainedCalls \ {"matplotlib_config"})
        => raised = NoErr

====
